---- MODULE Spec2Model ----
(***************************************************************************)
(* Cinemalytics (src/main.py): a linear ETL pipeline                       *)
(*   load_and_preprocess_data -> create_visualizations ->                  *)
(*   prepare_database_tables -> setup_database_engine -> export_to_database*)
(*                                                                         *)
(* A DataFrame is a sequence of rows.  A row is a function from column     *)
(* names to cell values; the row's index label is kept in the hidden       *)
(* column IndexCol, so that explode / drop_duplicates / reset_index act on *)
(* labels the way pandas does.                                             *)
(***************************************************************************)
EXTENDS Integers, Sequences, FiniteSets, TLC

VARIABLES
    pc,              \* main(): the stage about to run
    raw,             \* the parsed JSON document read at line 10
    df,              \* the flattened DataFrame (main's local df)
    origin,          \* ghost: for each row of df, the position of its raw record
    movies_table,    \* prepare_database_tables' locals, as far as they were built
    directors_table,
    genres_table,
    movie_director,
    movie_genre,
    started,         \* ghost: the stages main has invoked, in order
    failed,          \* the stage whose exception main's handler caught, or "none"
    error,           \* the exception in flight / caught
    log,             \* the lines printed to standard output
    main_result,     \* "running", "returned" or "raised"
    tables,          \* export_to_database's argument `tables`
    db,              \* the SQLite database: table name -> rows
    schema_created,  \* whether metadata.create_all has created the tables
    epc,             \* export_to_database: position in the call
    pos,             \* export_to_database: index of the table the loop is at
    calls,           \* number of calls of export_to_database so far
    pre,             \* ghost: the database when the current call began
    io_failed        \* ghost: whether the environment has failed a statement

vars == <<pc, raw, df, origin, movies_table, directors_table,
          genres_table, movie_director, movie_genre, started, failed, error,
          log, main_result, tables, db, schema_created, epc, pos, calls, pre,
          io_failed>>

mainVars == <<pc, raw, df, origin, movies_table, directors_table,
              genres_table, movie_director, movie_genre, started, failed,
              error, log, main_result>>

exportVars == <<tables, db, schema_created, epc, pos, calls, pre, io_failed>>

-----------------------------------------------------------------------------
(* Bounds of the model *)

MaxMovies == 2      \* raw records in top_movies
MaxList == 2        \* longest genre / cast list of a raw record
MaxRows == 2        \* rows of each table handed to export_to_database
MaxCalls == 2       \* calls of export_to_database on one database

-----------------------------------------------------------------------------
(* Cell values *)

\* pandas' missing value in a numeric column: the record has no "year" key
NaN == -1
\* pandas' missing value in an object column (explode of an empty list)
NaNObj == "nan"
\* what fillna(0) leaves in an object column: the number 0
ZeroObj == "0"

IndexCol == "__index__"

\* a JSON value of "genre"/"cast": a list of strings, or one string
ListCell(items) == [isList |-> TRUE, items |-> items]
Scalar(s) == [isList |-> FALSE, items |-> <<s>>]

-----------------------------------------------------------------------------
(* The pandas operations the program uses *)

Columns(f) == IF f = <<>> THEN {} ELSE (DOMAIN f[1]) \ {IndexCol}

SetField(r, c, v) == [x \in (DOMAIN r) \cup {c} |-> IF x = c THEN v ELSE r[x]]

\* df[[c1, c2, ...]]
Project(f, cols) ==
    [i \in 1..Len(f) |-> [c \in cols \cup {IndexCol} |-> f[i][c]]]

Data(r) == [c \in (DOMAIN r) \ {IndexCol} |-> r[c]]

\* pd.json_normalize(list of records): one row per record, RangeIndex
JsonNormalize(records) ==
    [i \in 1..Len(records) |-> SetField(records[i], IndexCol, i - 1)]

\* explode as a bug would have it: an empty list leaves no row
ExplodeRowDropsEmpty(r, col) ==
    LET c == r[col] IN
    IF ~c.isList THEN <<r>>
    ELSE [i \in 1..Len(c.items) |-> SetField(r, col, Scalar(c.items[i]))]

\* DataFrame.explode(col) on one row: one row per list item with the row's
\* index label repeated; an empty list gives one row holding NaN; a scalar
\* is left as it is
ExplodeRow(r, col) ==
    LET c == r[col] IN
    IF ~c.isList THEN <<r>>
    ELSE IF Len(c.items) = 0 THEN <<SetField(r, col, Scalar(NaNObj))>>
    ELSE [i \in 1..Len(c.items) |-> SetField(r, col, Scalar(c.items[i]))]

RECURSIVE Explode(_, _)
Explode(f, col) ==
    IF f = <<>> THEN <<>>
    ELSE ExplodeRow(Head(f), col) \o Explode(Tail(f), col)

\* DataFrame.reset_index(drop=True)
ResetIndexDrop(f) == [i \in 1..Len(f) |-> SetField(f[i], IndexCol, i - 1)]

\* DataFrame.reset_index(): the old labels become column "index"
ResetIndex(f) ==
    [i \in 1..Len(f) |-> SetField(SetField(f[i], "index", f[i][IndexCol]),
                                  IndexCol, i - 1)]

\* DataFrame.rename(columns={from: to})
Rename(f, from, to) ==
    [i \in 1..Len(f) |->
        [c \in ((DOMAIN f[i]) \ {from}) \cup {to} |->
            IF c = to THEN f[i][from] ELSE f[i][c]]]

\* DataFrame.drop_duplicates(): keeps the first of equal rows, and its label
DropDuplicates(f) ==
    SelectSeq([i \in 1..Len(f) |-> [k |-> i, r |-> f[i]]],
              LAMBDA e : \A j \in 1..(e.k - 1) : Data(f[j]) # Data(e.r))

DropDuplicatesRows(f) ==
    LET kept == DropDuplicates(f) IN [i \in 1..Len(kept) |-> kept[i].r]

\* Series.unique(): the distinct values in order of first appearance
Unique(f, col) ==
    LET vals == [i \in 1..Len(f) |-> f[i][col]]
        kept == SelectSeq([i \in 1..Len(f) |-> [k |-> i, v |-> vals[i]]],
                          LAMBDA e : \A j \in 1..(e.k - 1) : vals[j] # e.v)
    IN [i \in 1..Len(kept) |-> kept[i].v]

\* pd.DataFrame(values, columns=[col])
DataFrameOf(values, col) ==
    [i \in 1..Len(values) |-> (col :> values[i]) @@ (IndexCol :> (i - 1))]

\* DataFrame.merge(right, left_on=lo, right_on=ro, how='left'): the key
\* lookup.  The right key is resolved first, then the left key; a key that is
\* no column of its frame raises KeyError.
NoError == "none"
KeyError(what) == "KeyError: " \o what

MergeKeyError(L, R, lo, ro) ==
    IF ro \notin Columns(R) THEN KeyError(ro)
    ELSE IF lo \notin Columns(L) THEN KeyError(lo)
    ELSE NoError

\* the columns of the merged frame: a name both frames have gets the
\* suffixes _x (left) and _y (right)
LeftName(L, R, c) == IF c \in Columns(R) THEN c \o "_x" ELSE c
RightName(L, R, c) == IF c \in Columns(L) THEN c \o "_y" ELSE c

MergedRow(L, R, l, r) ==
    LET lnames == {LeftName(L, R, c) : c \in Columns(L)}
        rnames == {RightName(L, R, c) : c \in Columns(R)}
    IN [n \in lnames \cup rnames |->
           IF n \in lnames
           THEN l[CHOOSE c \in Columns(L) : LeftName(L, R, c) = n]
           ELSE r[CHOOSE c \in Columns(R) : RightName(L, R, c) = n]]

\* the rows of a left join: every left row, in order, with each right row
\* whose key matches; NaN in the right columns when none matches
MergeRow(L, R, lo, ro, l) ==
    LET hits == SelectSeq(R, LAMBDA r : r[ro] = l[lo])
        nan == [c \in Columns(R) |-> NaN]
    IN IF hits = <<>> THEN <<MergedRow(L, R, l, nan)>>
       ELSE [i \in 1..Len(hits) |-> MergedRow(L, R, l, hits[i])]

RECURSIVE MergeRows(_, _, _, _, _)
MergeRows(L, R, lo, ro, k) ==
    IF k > Len(L) THEN <<>>
    ELSE MergeRow(L, R, lo, ro, L[k]) \o MergeRows(L, R, lo, ro, k + 1)

Merge(L, R, lo, ro) ==
    LET rows == MergeRows(L, R, lo, ro, 1)
    IN [i \in 1..Len(rows) |-> SetField(rows[i], IndexCol, i - 1)]

\* df[[c1, c2]] raises KeyError when a name is no column
SelectError(f, cols) ==
    IF cols \subseteq Columns(f) THEN NoError ELSE KeyError("not in index")

-----------------------------------------------------------------------------
(* load_and_preprocess_data *)

\* line 14: lambda x: x[0] if isinstance(x, list) else x
MainGenreLambda(x) == IF x.isList THEN Scalar(x.items[1]) ELSE x

\* the dtype pandas gives the year column: float64 once a value is missing
YearDtype(f) ==
    IF \E i \in 1..Len(f) : f[i].year = NaN THEN "float64" ELSE "int64"

\* line 15: (df['year'] // 10 * 10).astype(str) + 's'
DecadeOf(y, dtype) ==
    IF dtype = "int64" THEN ToString((y \div 10) * 10) \o "s"
    ELSE IF y = NaN THEN "nan" \o "s"
    ELSE ToString((y \div 10) * 10) \o ".0" \o "s"

\* line 16: fillna(0) on one cell
FillCell(c, v) ==
    IF c \in {"year", "rating"} THEN (IF v = NaN THEN 0 ELSE v)
    ELSE IF c \in {"genre", "cast", "main_genre"}
         THEN (IF v = Scalar(NaNObj) THEN Scalar(ZeroObj) ELSE v)
    ELSE v

Fillna0(f) ==
    [i \in 1..Len(f) |-> [c \in DOMAIN f[i] |-> FillCell(c, f[i][c])]]

LoadAndPreprocessData(r) ==
    IF ~r.has_top_movies
    THEN [raised |-> TRUE, error |-> KeyError("top_movies"),
          df |-> <<>>, origin |-> <<>>]
    ELSE IF \A i \in 1..Len(r.top_movies) : r.top_movies[i].year = NaN
    \* no record has the key, so json_normalize makes no year column and
    \* df['year'] at line 15 raises
    THEN [raised |-> TRUE, error |-> KeyError("year"),
          df |-> <<>>, origin |-> <<>>]
    ELSE
      LET normalized == JsonNormalize(r.top_movies)
          exploded == Explode(Explode(normalized, "genre"), "cast")
          withGenre == [i \in 1..Len(exploded) |->
                          SetField(exploded[i], "main_genre",
                                   MainGenreLambda(exploded[i].genre))]
          dtype == YearDtype(withGenre)
          withDecade == [i \in 1..Len(withGenre) |->
                          SetField(withGenre[i], "decade",
                                   DecadeOf(withGenre[i].year, dtype))]
          filled == Fillna0(withDecade)
      IN [raised |-> FALSE, error |-> NoError,
          df |-> ResetIndexDrop(filled),
          origin |-> [i \in 1..Len(filled) |-> filled[i][IndexCol] + 1]]

-----------------------------------------------------------------------------
(* prepare_database_tables *)

MoviesTable(d) ==
    Rename(ResetIndex(DropDuplicatesRows(
               Project(d, {"title", "year", "rating", "synopsis"}))),
           "index", "id")

\* lines 60-70: the distinct values of a column, numbered from 0
EntityTable(d, col) ==
    Rename(ResetIndex(DataFrameOf(Unique(d, col), "name")), "index", "id")

\* lines 72-88: a junction table; left is df[[...]].reset_index()
JunctionError(left, entity, lo) ==
    LET e == MergeKeyError(left, entity, lo, "name")
    IN IF e # NoError THEN e
       ELSE SelectError(Merge(left, entity, lo, "name"), {"index", "id_y"})

Junction(left, entity, lo, idname) ==
    DropDuplicatesRows(
        Rename(Rename(Project(Merge(left, entity, lo, "name"),
                              {"index", "id_y"}),
                      "index", "movie_id"),
               "id_y", idname))

PrepareDatabaseTables(d) ==
    LET mt == MoviesTable(d)
        dt == EntityTable(d, "director")
        gt == EntityTable(d, "genre")
        mdLeft == ResetIndex(Project(d, {"title"}))
        mgLeft == ResetIndex(Project(d, {"title", "genre"}))
        mdErr == JunctionError(mdLeft, dt, "director")
        mgErr == JunctionError(mgLeft, gt, "genre")
        built == [raised |-> FALSE, error |-> NoError,
                  movies_table |-> mt, directors_table |-> dt,
                  genres_table |-> gt,
                  movie_director |-> <<>>, movie_genre |-> <<>>]
    IN IF mdErr # NoError
       THEN [built EXCEPT !.raised = TRUE, !.error = mdErr]
       ELSE IF mgErr # NoError
       THEN [built EXCEPT !.raised = TRUE, !.error = mgErr,
                          !.movie_director =
                              Junction(mdLeft, dt, "director", "director_id")]
       ELSE [built EXCEPT
               !.movie_director = Junction(mdLeft, dt, "director", "director_id"),
               !.movie_genre = Junction(mgLeft, gt, "genre", "genre_id")]

-----------------------------------------------------------------------------
(* The inputs the model draws *)

Titles == {"A", "B"}
Years == {1994, 2005}
Directors == {"D", "E"}
GenrePool == <<"Drama", "Crime", "Comedy", "Horror">>
CastPool == <<"X", "Y", "Z", "W">>

Prefix(s, n) == [i \in 1..n |-> s[i]]

\* the genre values of a record: a list of up to MaxList genres, or a string
GenreCells ==
    {ListCell(Prefix(GenrePool, n)) : n \in 0..MaxList}
    \cup {Scalar(GenrePool[1])}

\* the cast values of a record: a list of up to MaxList names
CastCells == {ListCell(Prefix(CastPool, n)) : n \in 0..MaxList}

RawMovie(t, y, d, g, c) ==
    [title |-> t, year |-> y, rating |-> 80, synopsis |-> "s",
     director |-> d, genre |-> g, cast |-> c]

\* records for the loader: every shape of genre and cast, with and without
\* a year
LoadMovies ==
    {RawMovie("A", y, "D", g, c) :
        y \in {1994, NaN}, g \in GenreCells, c \in CastCells}

\* records for the whole pipeline: every title, year and director, and the
\* genre / cast shapes that explode to one row and to several
MainMovies ==
    {RawMovie(t, y, d, ListCell(Prefix(GenrePool, n)),
              ListCell(Prefix(CastPool, n))) :
        t \in Titles, y \in Years, d \in Directors, n \in 1..2}

RawInputs(movies) ==
    {[has_top_movies |-> FALSE, top_movies |-> <<>>]}
    \cup {[has_top_movies |-> TRUE, top_movies |-> ms] :
            ms \in UNION {[1..k -> movies] : k \in 1..MaxMovies}}

TableOrder == <<"movies", "directors", "genres", "movie_director", "movie_genre">>

EmptyDb == [t \in {TableOrder[i] : i \in 1..Len(TableOrder)} |-> <<>>]

-----------------------------------------------------------------------------
(* main *)

StageOrder == <<"load", "visualize", "prepare", "setup", "export">>

InitState(input, start) ==
    /\ raw = input
    /\ pc = start
    /\ df = <<>>
    /\ origin = <<>>
    /\ movies_table = <<>>
    /\ directors_table = <<>>
    /\ genres_table = <<>>
    /\ movie_director = <<>>
    /\ movie_genre = <<>>
    /\ started = <<>>
    /\ failed = "none"
    /\ error = NoError
    /\ log = <<>>
    /\ main_result = "running"
    /\ db = EmptyDb
    /\ schema_created = FALSE
    /\ epc = "idle"
    /\ pos = 0
    /\ calls = 0
    /\ pre = EmptyDb
    /\ io_failed = FALSE

\* python main.py on a dataset
Init ==
    /\ \E input \in RawInputs(MainMovies) : InitState(input, "load")
    /\ tables = EmptyDb

\* the loader on every shape of record
InitLoad ==
    /\ \E input \in RawInputs(LoadMovies) : InitState(input, "load")
    /\ tables = EmptyDb

NextStage(stage) ==
    CASE stage = "load" -> "visualize"
      [] stage = "visualize" -> "prepare"
      [] stage = "prepare" -> "setup"
      [] OTHER -> "done"

\* a stage handler as a bug would have it: it prints and does not re-raise,
\* so main goes on to the next stage
StageSwallowed(stage, msg, e) ==
    /\ failed' = stage
    /\ error' = e
    /\ log' = Append(log, msg)
    /\ pc' = NextStage(stage)

\* a stage raised: its own handler printed its message and re-raised
\* (lines 23-25, 45-47, 92-94, 133-135, 148-150); control is in main's handler
StageRaised(stage, msg, e) ==
    /\ failed' = stage
    /\ error' = e
    /\ log' = Append(log, msg)
    /\ pc' = "except"

\* line 155
MainLoad ==
    /\ pc = "load"
    /\ started' = Append(started, "load")
    /\ LET r == LoadAndPreprocessData(raw) IN
       IF r.raised
       THEN /\ StageRaised("load", "Erro ao carregar dados", r.error)
            /\ UNCHANGED <<df, origin>>
       ELSE /\ df' = r.df
            /\ origin' = r.origin
            /\ pc' = "visualize"
            /\ UNCHANGED <<failed, error, log>>
    /\ UNCHANGED <<raw, movies_table, directors_table, genres_table,
                   movie_director, movie_genre, main_result>>
    /\ UNCHANGED exportVars

\* line 157: the aggregates read columns df has; the rendering
\* (plt.figure .. plt.show) succeeds or raises as the backend decides
MainVisualize ==
    /\ pc = "visualize"
    /\ started' = Append(started, "visualize")
    /\ \E rendered \in BOOLEAN :
         IF rendered
         THEN /\ pc' = "prepare"
              /\ UNCHANGED <<failed, error, log>>
         ELSE StageRaised("visualize", "Erro ao criar visualizacoes",
                          "RenderError")
    /\ UNCHANGED <<raw, df, origin, movies_table, directors_table,
                   genres_table, movie_director, movie_genre, main_result>>
    /\ UNCHANGED exportVars

\* line 159
MainPrepare ==
    /\ pc = "prepare"
    /\ started' = Append(started, "prepare")
    /\ LET r == PrepareDatabaseTables(df) IN
       /\ movies_table' = r.movies_table
       /\ directors_table' = r.directors_table
       /\ genres_table' = r.genres_table
       /\ movie_director' = r.movie_director
       /\ movie_genre' = r.movie_genre
       /\ IF r.raised
          THEN StageRaised("prepare", "Erro ao preparar tabelas", r.error)
          ELSE /\ pc' = "setup"
               /\ UNCHANGED <<failed, error, log>>
    /\ UNCHANGED <<raw, df, origin, main_result>>
    /\ UNCHANGED exportVars

\* lines 172-173: main's handler prints and falls off the end of main
MainExcept ==
    /\ pc = "except"
    /\ log' = Append(log, "Erro na execucao")
    /\ main_result' = "returned"
    /\ pc' = "done"
    /\ UNCHANGED <<raw, df, origin, movies_table, directors_table,
                   genres_table, movie_director, movie_genre, started,
                   failed, error>>
    /\ UNCHANGED exportVars

\* lines 161-169: the engine, the schema and the dict of tables
MainSetup ==
    /\ pc = "setup"
    /\ started' = Append(started, "setup")
    /\ tables' = [t \in DOMAIN EmptyDb |->
                    CASE t = "movies" -> movies_table
                      [] t = "directors" -> directors_table
                      [] t = "genres" -> genres_table
                      [] t = "movie_director" -> movie_director
                      [] t = "movie_genre" -> movie_genre]
    /\ pc' = "export"
    /\ UNCHANGED <<raw, df, origin, movies_table, directors_table,
                   genres_table, movie_director, movie_genre, failed, error,
                   log, main_result>>
    /\ UNCHANGED <<db, schema_created, epc, pos, calls, pre, io_failed>>

-----------------------------------------------------------------------------
(* setup_database_engine: the schema *)

\* lines 103-119: movies, directors and genres have the primary key id;
\* lines 121-129: the junction tables have none
PrimaryKeyTables == {"movies", "directors", "genres"}

Ids(rows) == {rows[i].id : i \in 1..Len(rows)}

\* SQLite's check of an INSERT of rows into table t: the primary key is
\* unique.  (The ForeignKey columns are declared, and SQLite enforces foreign
\* keys only under PRAGMA foreign_keys=ON, which the program never issues.)
ConstraintsHold(t, old, rows) ==
    t \in PrimaryKeyTables =>
        /\ Ids(rows) \cap Ids(old) = {}
        /\ \A i, j \in 1..Len(rows) : rows[i].id = rows[j].id => i = j

\* DataFrame.to_sql(..., index=False): the columns without the index
SqlRows(f) == [i \in 1..Len(f) |-> Data(f[i])]

-----------------------------------------------------------------------------
(* export_to_database *)

\* the call itself: main's line 170, or any caller holding engine and tables
EnterExport ==
    /\ epc \in {"idle", "returned", "raised"}
    /\ calls < MaxCalls
    /\ calls' = calls + 1
    /\ pre' = db
    /\ pos' = 1
    /\ epc' = "create_all"

CallExport ==
    /\ pc = "caller"
    /\ EnterExport
    /\ UNCHANGED <<tables, db, schema_created, io_failed, error, log>>
    /\ UNCHANGED <<pc, raw, df, origin, movies_table, directors_table,
                   genres_table, movie_director, movie_genre, started,
                   failed, main_result>>

MainExport ==
    /\ pc = "export"
    /\ epc = "idle"
    /\ started' = Append(started, "export")
    /\ EnterExport
    /\ UNCHANGED <<tables, db, schema_created, io_failed, error, log>>
    /\ UNCHANGED <<pc, raw, df, origin, movies_table, directors_table,
                   genres_table, movie_director, movie_genre, failed,
                   main_result>>

\* line 141: metadata.create_all(engine) creates the tables that are absent
CreateAll ==
    /\ epc = "create_all"
    /\ \E io_ok \in BOOLEAN :
         IF io_ok
         THEN /\ schema_created' = TRUE
              /\ epc' = "to_sql"
              /\ UNCHANGED <<io_failed, error>>
         ELSE /\ io_failed' = TRUE
              /\ error' = "OperationalError"
              /\ epc' = "except"
              /\ UNCHANGED schema_created
    /\ UNCHANGED <<tables, db, pos, calls, pre, log>>
    /\ UNCHANGED <<pc, raw, df, origin, movies_table, directors_table,
                   genres_table, movie_director, movie_genre, started,
                   failed, main_result>>

\* the loop as a bug would have it: a failed append is skipped and the loop
\* goes on to the next table
ToSqlSkipsFailed ==
    /\ epc = "to_sql"
    /\ pos <= Len(TableOrder)
    /\ LET t == TableOrder[pos]
           rows == SqlRows(tables[t])
       IN \E io_ok \in BOOLEAN :
            IF ~io_ok \/ ~ConstraintsHold(t, db[t], rows)
            THEN /\ io_failed' = (io_failed \/ ~io_ok)
                 /\ pos' = pos + 1
                 /\ UNCHANGED <<db, epc, error>>
            ELSE /\ db' = [db EXCEPT ![t] = db[t] \o rows]
                 /\ pos' = pos + 1
                 /\ UNCHANGED <<epc, error, io_failed>>
    /\ UNCHANGED <<tables, schema_created, calls, pre, log>>
    /\ UNCHANGED <<pc, raw, df, origin, movies_table, directors_table,
                   genres_table, movie_director, movie_genre, started,
                   failed, main_result>>

\* lines 143-144: one iteration of the loop over tables.items(); to_sql
\* inserts the frame's rows in one transaction, which a failure rolls back
ToSql ==
    /\ epc = "to_sql"
    /\ pos <= Len(TableOrder)
    /\ LET t == TableOrder[pos]
           rows == SqlRows(tables[t])
       IN \E io_ok \in BOOLEAN :
            IF ~io_ok
            THEN /\ io_failed' = TRUE
                 /\ error' = "OperationalError"
                 /\ epc' = "except"
                 /\ UNCHANGED <<db, pos>>
            ELSE IF ~ConstraintsHold(t, db[t], rows)
            THEN /\ error' = "IntegrityError"
                 /\ epc' = "except"
                 /\ UNCHANGED <<db, pos, io_failed>>
            ELSE /\ db' = [db EXCEPT ![t] = db[t] \o rows]
                 /\ pos' = pos + 1
                 /\ UNCHANGED <<epc, error, io_failed>>
    /\ UNCHANGED <<tables, schema_created, calls, pre, log>>
    /\ UNCHANGED <<pc, raw, df, origin, movies_table, directors_table,
                   genres_table, movie_director, movie_genre, started,
                   failed, main_result>>

\* line 146
ExportSuccess ==
    /\ epc = "to_sql"
    /\ pos = Len(TableOrder) + 1
    /\ log' = Append(log, "Dados exportados com sucesso")
    /\ epc' = "returned"
    /\ UNCHANGED <<tables, db, schema_created, pos, calls, pre, io_failed,
                   error>>
    /\ UNCHANGED <<pc, raw, df, origin, movies_table, directors_table,
                   genres_table, movie_director, movie_genre, started,
                   failed, main_result>>

\* lines 148-150: print, then raise
ExportExcept ==
    /\ epc = "except"
    /\ log' = Append(log, "Erro ao exportar")
    /\ epc' = "raised"
    /\ UNCHANGED <<tables, db, schema_created, pos, calls, pre, io_failed,
                   error>>
    /\ UNCHANGED <<pc, raw, df, origin, movies_table, directors_table,
                   genres_table, movie_director, movie_genre, started,
                   failed, main_result>>

\* main after line 170: export returned, so main returns; or export raised
\* into main's handler
MainExportDone ==
    /\ pc = "export"
    /\ epc \in {"returned", "raised"}
    /\ IF epc = "returned"
       THEN /\ pc' = "done"
            /\ main_result' = "returned"
            /\ UNCHANGED failed
       ELSE /\ pc' = "except"
            /\ failed' = "export"
            /\ UNCHANGED main_result
    /\ UNCHANGED <<raw, df, origin, movies_table, directors_table,
                   genres_table, movie_director, movie_genre, started,
                   error, log>>
    /\ UNCHANGED exportVars

-----------------------------------------------------------------------------
(* The tables a caller hands to export_to_database *)

MovieRow(i) ==
    [id |-> i, title |-> "A", year |-> 1994, rating |-> 80, synopsis |-> "s"]

\* ids as reset_index leaves them: distinct, ascending
AscendingIds(S) ==
    CHOOSE q \in [1..Cardinality(S) -> S] :
        \A i, j \in 1..Cardinality(S) : i < j => q[i] < q[j]

MovieTables ==
    {[i \in 1..Cardinality(S) |-> MovieRow(AscendingIds(S)[i])] :
        S \in {X \in SUBSET (0..MaxRows) : Cardinality(X) <= MaxRows}}

NameTables == {[i \in 1..n |-> [id |-> i - 1, name |-> "n"]] : n \in 0..MaxRows}

PairTables(col) ==
    {[i \in 1..n |-> ("movie_id" :> (i - 1)) @@ (col :> 0)] : n \in 0..MaxRows}

ExportInputs ==
    {[t \in DOMAIN EmptyDb |->
        CASE t = "movies" -> m
          [] t = "directors" -> d
          [] t = "genres" -> g
          [] t = "movie_director" -> md
          [] t = "movie_genre" -> mg] :
        m \in MovieTables, d \in NameTables, g \in NameTables,
        md \in PairTables("director_id"), mg \in PairTables("genre_id")}

\* a caller with a fresh database and five tables
InitExport ==
    /\ InitState([has_top_movies |-> FALSE, top_movies |-> <<>>], "caller")
    /\ tables \in ExportInputs

-----------------------------------------------------------------------------
(* Specifications *)

\* main(): prepare_database_tables raises on every DataFrame (NeverSetup
\* below), so MainSetup, MainExport and MainExportDone are never enabled in a
\* run of main and are left out of Next
Next == MainLoad \/ MainVisualize \/ MainPrepare \/ MainExcept

Spec == Init /\ [][Next]_vars

SpecLoad == InitLoad /\ [][MainLoad]_vars

NextExport == CallExport \/ CreateAll \/ ToSql \/ ExportSuccess \/ ExportExcept

SpecExport == InitExport /\ [][NextExport]_vars

NeverSetup == pc \notin {"setup", "export"}

-----------------------------------------------------------------------------
(* Properties of main *)

Range(q) == {q[i] : i \in 1..Len(q)}

\* C1: whenever a stage invoked by main raises, main logs a message and
\* re-raises, so the run ends with that error instead of returning normally.
MainReraises ==
    (pc = "done" /\ failed # "none") =>
        (main_result = "raised" /\ log # <<>>)

\* C2: the stages run in the order load, visualize, prepare, setup, export;
\* a stage starts only if every earlier stage completed without raising; and
\* when load or visualize fails, export is never invoked and the database
\* holds no row.
StagesGated ==
    /\ \E k \in 0..Len(StageOrder) : started = Prefix(StageOrder, k)
    /\ failed # "none" => (started # <<>> /\ started[Len(started)] = failed)
    /\ failed \in {"load", "visualize"} =>
          /\ "export" \notin Range(started)
          /\ calls = 0
          /\ db = EmptyDb

\* a run on a document without top_movies: load raised, nothing else ran
LoadFailedRunOver ==
    /\ ~raw.has_top_movies
    /\ pc = "done"
    /\ failed = "load"
    /\ started = <<"load">>
    /\ db = EmptyDb

-----------------------------------------------------------------------------
(* Properties of load_and_preprocess_data *)

Loaded == pc = "visualize"

AllLists(ms) == \A m \in 1..Len(ms) : ms[m].genre.isList /\ ms[m].cast.isList

RECURSIVE SumOver(_, _)
SumOver(F(_), n) == IF n = 0 THEN 0 ELSE F(n) + SumOver(F, n - 1)

Max1(n) == IF n = 0 THEN 1 ELSE n

\* the values a list explodes to: its items, or the filled missing value
Exploded(c) == IF c.isList /\ c.items = <<>> THEN <<ZeroObj>> ELSE c.items

RowsOf(m, g, c) ==
    {i \in 1..Len(df) :
        origin[i] = m /\ df[i].genre = Scalar(g) /\ df[i].cast = Scalar(c)}

\* C4 as claimed: for list-valued genre and cast, the flattened table has
\* sum over movies of len(genre) * len(cast) rows.
RowCountIsProduct ==
    (Loaded /\ AllLists(raw.top_movies)) =>
        LET ms == raw.top_movies
            F(m) == Len(ms[m].genre.items) * Len(ms[m].cast.items)
        IN Len(df) = SumOver(F, Len(ms))

\* C4 as amended: for list-valued genre and cast, the flattened table has
\* sum over movies of max(1, len(genre)) * max(1, len(cast)) rows, exactly
\* one for each (movie, genre, cast member) combination, where an empty list
\* counts as the single filled missing value.
RowCountIsProductOfNonEmpty ==
    (Loaded /\ AllLists(raw.top_movies)) =>
        LET ms == raw.top_movies
            F(m) == Max1(Len(ms[m].genre.items)) * Max1(Len(ms[m].cast.items))
        IN /\ Len(df) = SumOver(F, Len(ms))
           /\ \A m \in 1..Len(ms) :
                \A g \in Range(Exploded(ms[m].genre)) :
                  \A c \in Range(Exploded(ms[m].cast)) :
                    Cardinality(RowsOf(m, g, c)) = 1

\* a loaded dataset with a 2 x 2 movie and a movie with an empty list
CrossProductLoaded ==
    /\ Loaded
    /\ AllLists(raw.top_movies)
    /\ \E m \in 1..Len(raw.top_movies) :
          /\ Len(raw.top_movies[m].genre.items) = 2
          /\ Len(raw.top_movies[m].cast.items) = 2
    /\ \E m \in 1..Len(raw.top_movies) :
          Len(raw.top_movies[m].cast.items) = 0
    /\ Len(df) > 4

\* C5: every flattened row's main_genre is the first element of the genre
\* list of the raw record it came from, or the genre itself when that is
\* not a list.
MainGenreIsFirst ==
    Loaded =>
        \A i \in 1..Len(df) :
            LET g == raw.top_movies[origin[i]].genre IN
            IF g.isList
            THEN g.items # <<>> => df[i].main_genre = Scalar(g.items[1])
            ELSE df[i].main_genre = g

\* C9: every flattened row's year is an integer, 0 when the record had
\* none, and its decade is str(year // 10 * 10) + "s" for that year, also
\* in a dataset that holds a record without a year.
DecadeMatchesYear ==
    Loaded =>
        \A i \in 1..Len(df) :
            LET y == raw.top_movies[origin[i]].year IN
            /\ df[i].year = (IF y = NaN THEN 0 ELSE y)
            /\ df[i].decade = ToString((df[i].year \div 10) * 10) \o "s"

-----------------------------------------------------------------------------
(* Properties of prepare_database_tables *)

Prepared == Len(started) >= 3

MovieKey(r) == <<r.title, r.year, r.rating, r.synopsis>>

\* C6: on a well-formed flattened table prepare_database_tables completes
\* without raising, and movie_director has one row per distinct (movie,
\* director) pair and movie_genre one row per distinct (movie, genre) pair.
PrepareBuildsJunctions ==
    Prepared =>
        /\ failed # "prepare"
        /\ Len(movie_director) =
             Cardinality({<<MovieKey(df[i]), df[i].director>> : i \in 1..Len(df)})
        /\ Len(movie_genre) =
             Cardinality({<<MovieKey(df[i]), df[i].genre>> : i \in 1..Len(df)})

\* C7: the tables prepare_database_tables builds are referentially intact:
\* every director_id is an id of directors, every genre_id an id of genres,
\* and every movie_id of either junction table an id of movies.
ReferentialIntegrity ==
    Prepared =>
        /\ failed # "prepare"
        /\ \A i \in 1..Len(movie_director) :
              /\ movie_director[i].director_id \in Ids(directors_table)
              /\ movie_director[i].movie_id \in Ids(movies_table)
        /\ \A i \in 1..Len(movie_genre) :
              /\ movie_genre[i].genre_id \in Ids(genres_table)
              /\ movie_genre[i].movie_id \in Ids(movies_table)

\* C8: the movies table holds one row per distinct (title, year, rating,
\* synopsis) of the flattened table in order of first appearance, and its
\* ids are consecutive integers in that order.
MovieIdsSequential ==
    Prepared =>
        /\ [k \in 1..Len(movies_table) |-> MovieKey(movies_table[k])]
             = Unique([i \in 1..Len(df) |-> [key |-> MovieKey(df[i])]], "key")
        /\ \A k \in 1..Len(movies_table) :
              movies_table[k].id = movies_table[1].id + (k - 1)

-----------------------------------------------------------------------------
(* Properties of export_to_database *)

\* C3: on a fresh database, two calls with the same five tables both succeed
\* and leave every table with twice the rows of the table handed in.
ExportTwiceDoubles ==
    (calls = 2 /\ epc \in {"returned", "raised"} /\ ~io_failed) =>
        /\ epc = "returned"
        /\ \A t \in DOMAIN db : Len(db[t]) = 2 * Len(tables[t])

InCall == epc \in {"to_sql", "except", "raised", "returned"}

\* C10: the tables are appended one at a time in the order movies,
\* directors, genres, movie_director, movie_genre; when the append of the
\* k-th fails the error is logged and re-raised, the tables before it keep
\* the rows this call appended, and no table after it is appended.
ExportAppendsInOrder ==
    /\ InCall =>
          \A i \in 1..Len(TableOrder) :
              db[TableOrder[i]] =
                  IF i < pos
                  THEN pre[TableOrder[i]] \o SqlRows(tables[TableOrder[i]])
                  ELSE pre[TableOrder[i]]
    /\ epc = "raised" =>
          /\ error # NoError
          /\ log # <<>>
          /\ log[Len(log)] = "Erro ao exportar"
    /\ epc = "returned" => pos = Len(TableOrder) + 1

\* the append of the fourth table failed: movies stays appended,
\* movie_genre is not
FourthAppendFailed ==
    /\ epc = "raised"
    /\ pos = 4
    /\ tables["movies"] # <<>>
    /\ tables["movie_genre"] # <<>>
    /\ db["movies"] = pre["movies"] \o tables["movies"]
    /\ db["movie_genre"] = pre["movie_genre"]

====
